---- MODULE Spec2Model ----
(***************************************************************************)
(* Model of the helpers of serverless-esbuild (src/unnamed/part_001):      *)
(*   - zip: stage the IFiles list in a scoped temporary directory, create  *)
(*     the archive's parent directory, archive with the native zip utility *)
(*     (bestzip) or with nodeZip, release the temporary directory;         *)
(*   - nodeZip: write stream + concurrent stat phase + 'open' handler;     *)
(*   - findUpEffect / findProjectRoot: walk up to the nearest lockfile.    *)
(* Paths inside an archive are sequences of path segments.                 *)
(***************************************************************************)
EXTENDS Integers, Sequences, FiniteSets, TLC

\* ------------------------------------------------------------------ bounds
MaxFiles == 2
MaxRuns == 2
MaxDepth == 2

\* ------------------------------------------------------- the source files
\* stat.mode of a regular file rw-r--r--, of an executable rwxr-xr-x, of a directory
ModeFile == 33188
ModeExec == 33261
ModeDir == 16877

\* The files on disk that an IFile's rootPath may name. A directory lists its
\* regular files by their path relative to it.
SourceFS ==
  [p \in {"/src/index.js", "/src/run.sh", "/src/.env", "/src/lib"} |->
     CASE p = "/src/index.js" -> [isDirectory |-> FALSE, mode |-> ModeFile, content |-> "index", children |-> {}]
       [] p = "/src/run.sh"   -> [isDirectory |-> FALSE, mode |-> ModeExec, content |-> "run", children |-> {}]
       [] p = "/src/.env"     -> [isDirectory |-> FALSE, mode |-> ModeFile, content |-> "env", children |-> {}]
       [] p = "/src/lib"      -> [isDirectory |-> TRUE, mode |-> ModeDir, content |-> "",
                                  children |-> {[rel |-> <<"util.js">>, mode |-> ModeFile, content |-> "util"]}]]

\* IFile { localPath, rootPath }
IFile(localPath, rootPath) == [localPath |-> localPath, rootPath |-> rootPath]

CandidateFiles ==
  { IFile(<<"index.js">>, "/src/index.js"),
    IFile(<<"main.js">>, "/src/index.js"),
    IFile(<<"bin", "run.sh">>, "/src/run.sh"),
    IFile(<<".env">>, "/src/.env"),
    IFile(<<"lib">>, "/src/lib") }

Range(s) == { s[i] : i \in DOMAIN s }

\* IFiles: ordered lists whose localPath values are unique
IFilesLists ==
  UNION { { l \in [1..n -> CandidateFiles] :
              \A i, j \in 1..n : i # j => l[i].localPath # l[j].localPath } : n \in 0..MaxFiles }

\* a path segment that begins with a dot
DotSegments == {".env"}
IsDotSegment(s) == s \in DotSegments

NoArchive == [kind |-> "none", entries |-> <<>>]

VARIABLES
  \* inputs of the zip call and its environment: the list, the strategy, the number
  \* of the call, Date.now(), and the modification time of the source files (which
  \* no step reads: fs.stat is asked for isDirectory() and mode alone)
  filesPathList, useNativeZip, run, now, srcMtime,
  \* the Effect pipeline of zip
  pc, copied, tempExists, staged, zipDirMade, archiveStep, exitFailed,
  \* nodeZip
  nzPc, statDone, fileModes, streamState, handlerRegistered, openEmitted,
  handlerRuns, appended, written, promise,
  \* the file at zipPath, and the archives of the earlier calls
  zipFile, history,
  \* findProjectRoot
  rootDir, cwdDepth, dirFiles, findPc, dir, found

inputVars == <<filesPathList, useNativeZip, run, now, srcMtime>>
pipeVars == <<pc, copied, tempExists, staged, zipDirMade, archiveStep, exitFailed>>
nodeZipVars == <<nzPc, statDone, fileModes, streamState, handlerRegistered, openEmitted,
                 handlerRuns, appended, written, promise>>
zipVars == <<inputVars, pipeVars, nodeZipVars, zipFile, history>>
findVars == <<rootDir, cwdDepth, dirFiles, findPc, dir, found>>
vars == <<zipVars, findVars>>

\* ------------------------------------------------ staging (zip, lines 85-97)
\* FS.copy(file.rootPath, path.join(temp, file.localPath)): a regular file lands at
\* its localPath, a directory is copied with what it holds; the copy is stamped
\* with the time of the copy.
StageFile(file, t) ==
  LET s == SourceFS[file.rootPath] IN
  IF s.isDirectory
    THEN { [path |-> file.localPath \o c.rel, content |-> c.content, mode |-> c.mode, mtime |-> t] :
             c \in s.children }
    ELSE { [path |-> file.localPath, content |-> s.content, mode |-> s.mode, mtime |-> t] }

CopyInto(tree, new) == { e \in tree : \A n \in new : n.path # e.path } \cup new

\* Effect.tap sequencing: the archive step is reached once every copy and makePath ran
ReadyToArchiveEarly == TRUE
ReadyToArchive == copied = Len(filesPathList) /\ zipDirMade

\* Effect.scoped: the scope's finalizers run on success and on failure alike
ReleasesOnSuccessOnly(failed) == ~failed
ReleasesOnExit(failed) == TRUE

MakeTempPathScoped ==
  /\ pc = "start"
  /\ tempExists' = TRUE
  /\ pc' = "staging"
  /\ UNCHANGED <<inputVars, copied, staged, zipDirMade, archiveStep, exitFailed,
                 nodeZipVars, zipFile, history, findVars>>

MakeTempFail ==
  /\ pc = "start"
  /\ exitFailed' = TRUE
  /\ pc' = "release"
  /\ UNCHANGED <<inputVars, copied, tempExists, staged, zipDirMade, archiveStep,
                 nodeZipVars, zipFile, history, findVars>>

CopyFile ==
  /\ pc = "staging"
  /\ copied < Len(filesPathList)
  /\ staged' = CopyInto(staged, StageFile(filesPathList[copied + 1], now))
  /\ copied' = copied + 1
  /\ UNCHANGED <<inputVars, pc, tempExists, zipDirMade, archiveStep, exitFailed,
                 nodeZipVars, zipFile, history, findVars>>

CopyFail ==
  /\ pc = "staging"
  /\ copied < Len(filesPathList)
  /\ exitFailed' = TRUE
  /\ pc' = "release"
  /\ UNCHANGED <<inputVars, copied, tempExists, staged, zipDirMade, archiveStep,
                 nodeZipVars, zipFile, history, findVars>>

MakePath ==
  /\ pc = "staging"
  /\ copied = Len(filesPathList)
  /\ ~zipDirMade
  /\ zipDirMade' = TRUE
  /\ UNCHANGED <<inputVars, pc, copied, tempExists, staged, archiveStep, exitFailed,
                 nodeZipVars, zipFile, history, findVars>>

MakePathFail ==
  /\ pc = "staging"
  /\ copied = Len(filesPathList)
  /\ ~zipDirMade
  /\ exitFailed' = TRUE
  /\ pc' = "release"
  /\ UNCHANGED <<inputVars, copied, tempExists, staged, zipDirMade, archiveStep,
                 nodeZipVars, zipFile, history, findVars>>

\* --------------------------------------- the native strategy (lines 89-90, 99)
\* bestzip({ source: '*', destination: zipPath, cwd: temp }): the glob '*' matches
\* the names at the top of temp that do not begin with a dot; zip recurses into
\* the matched directories and stores each file with its modification time.
GlobMatches(tree) == { e \in tree : ~IsDotSegment(e.path[1]) }

NativeArchive(tree) ==
  [kind |-> "native",
   entries |-> { [name |-> e.path, mode |-> e.mode, date |-> e.mtime, content |-> e.content] :
                   e \in GlobMatches(tree) }]

BestZipStart ==
  /\ pc = "staging"
  /\ ReadyToArchive
  /\ useNativeZip
  /\ pc' = "archiving"
  /\ archiveStep' = "running"
  /\ UNCHANGED <<inputVars, copied, tempExists, staged, zipDirMade, exitFailed,
                 nodeZipVars, zipFile, history, findVars>>

\* zip writes a temporary file beside the destination and renames it when done
BestZipDone ==
  /\ pc = "archiving"
  /\ useNativeZip
  /\ GlobMatches(staged) # {}
  /\ zipFile' = [state |-> "complete", archive |-> NativeArchive(staged)]
  /\ archiveStep' = "finished"
  /\ pc' = "release"
  /\ UNCHANGED <<inputVars, copied, tempExists, staged, zipDirMade, exitFailed,
                 nodeZipVars, history, findVars>>

\* a non-zero exit code (also: nothing matched '*')
BestZipFail ==
  /\ pc = "archiving"
  /\ useNativeZip
  /\ archiveStep' = "finished"
  /\ exitFailed' = TRUE
  /\ pc' = "release"
  /\ UNCHANGED <<inputVars, copied, tempExists, staged, zipDirMade,
                 nodeZipVars, zipFile, history, findVars>>

\* ------------------------------------------------ scope exit (lines 100-103)
ScopeClose ==
  /\ pc = "release"
  /\ nzPc # "crashed"
  /\ tempExists' = IF ReleasesOnExit(exitFailed) THEN FALSE ELSE tempExists
  /\ staged' = IF ReleasesOnExit(exitFailed) THEN {} ELSE staged
  /\ pc' = IF exitFailed THEN "rejected" ELSE "resolved"
  /\ UNCHANGED <<inputVars, copied, zipDirMade, archiveStep, exitFailed,
                 nodeZipVars, zipFile, history, findVars>>

\* ------------------------------------------ the internal strategy (nodeZip)
\* date: new Date(0)
EntryDateNow(t) == t
EntryDate(t) == 0

\* mode: fileModes.get(file.rootPath)
ModeOfAnyFile(modes, file) == modes[CHOOSE p \in DOMAIN modes : TRUE]
ModeFor(modes, file) == modes[file.rootPath]

\* fileModes.set(file.rootPath, stats.mode) unless stats.isDirectory()
SetMode(modes, file) ==
  LET s == SourceFS[file.rootPath] IN
  IF s.isDirectory
    THEN modes
    ELSE [p \in DOMAIN modes \cup {file.rootPath} |->
            IF p = file.rootPath THEN s.mode ELSE modes[p]]

\* filesPathList.forEach: append every file that has a recorded mode, in list order
RECURSIVE Appends(_, _, _)
Appends(list, modes, t) ==
  IF list = <<>> THEN <<>>
  ELSE LET file == Head(list) IN
       (IF file.rootPath \in DOMAIN modes
          THEN << [name |-> file.localPath, mode |-> ModeFor(modes, file),
                   date |-> EntryDate(t), content |-> SourceFS[file.rootPath].content] >>
          ELSE <<>>)
       \o Appends(Tail(list), modes, t)

NodeArchive(entries) == [kind |-> "node", entries |-> entries]

\* lines 111-120: the archiver and the write stream are created, the stats start
NodeZipStart ==
  /\ pc = "staging"
  /\ ReadyToArchive
  /\ ~useNativeZip
  /\ pc' = "archiving"
  /\ archiveStep' = "running"
  /\ nzPc' = "stat"
  /\ streamState' = "opening"
  /\ promise' = "pending"
  /\ UNCHANGED <<inputVars, copied, tempExists, staged, zipDirMade, exitFailed,
                 statDone, fileModes, handlerRegistered, openEmitted, handlerRuns,
                 appended, written, zipFile, history, findVars>>

\* lines 120-126: pMap runs the stats concurrently; they complete in any order
StatDone ==
  /\ nzPc = "stat"
  /\ \E i \in (1..Len(filesPathList)) \ statDone :
       /\ statDone' = statDone \cup {i}
       /\ fileModes' = SetMode(fileModes, filesPathList[i])
  /\ UNCHANGED <<inputVars, pipeVars, nzPc, streamState, handlerRegistered, openEmitted,
                 handlerRuns, appended, written, promise, zipFile, history, findVars>>

\* a stat rejects: pMap rejects, and so does the promise of nodeZip
StatFail ==
  /\ nzPc = "stat"
  /\ (1..Len(filesPathList)) \ statDone # {}
  /\ nzPc' = "aborted"
  /\ promise' = "rejected"
  /\ UNCHANGED <<inputVars, pipeVars, statDone, fileModes, streamState, handlerRegistered,
                 openEmitted, handlerRuns, appended, written, zipFile, history, findVars>>

\* lines 131-158, after the await: output.on('open'), output.on('close'),
\* zipArchive.on('error') are registered in one synchronous run
RegisterHandlers ==
  /\ nzPc = "stat"
  /\ statDone = 1..Len(filesPathList)
  /\ nzPc' = "listening"
  /\ handlerRegistered' = TRUE
  /\ UNCHANGED <<inputVars, pipeVars, statDone, fileModes, streamState, openEmitted,
                 handlerRuns, appended, written, promise, zipFile, history, findVars>>

\* The stream opens zipPath (creating or truncating it) and emits 'open'. The open
\* is an I/O completion: it cannot precede code that follows only microtasks, which
\* is the case of an empty list, where pMap settles without any I/O.
OpenIsIO == Len(filesPathList) = 0 => handlerRegistered

\* 'open' with no listener yet: the event is lost
StreamOpenUnheard ==
  /\ streamState = "opening"
  /\ OpenIsIO
  /\ ~handlerRegistered
  /\ streamState' = "open"
  /\ openEmitted' = TRUE
  /\ zipFile' = [state |-> "empty", archive |-> NoArchive]
  /\ UNCHANGED <<inputVars, pipeVars, nzPc, statDone, fileModes, handlerRegistered,
                 handlerRuns, appended, written, promise, history, findVars>>

\* 'open' with the listener: lines 132-150, pipe, append every file, finalize
StreamOpenHandled ==
  /\ streamState = "opening"
  /\ OpenIsIO
  /\ handlerRegistered
  /\ streamState' = "open"
  /\ openEmitted' = TRUE
  /\ zipFile' = [state |-> "empty", archive |-> NoArchive]
  /\ handlerRuns' = handlerRuns + 1
  /\ appended' = Appends(filesPathList, fileModes, now)
  /\ nzPc' = "finalizing"
  /\ UNCHANGED <<inputVars, pipeVars, statDone, fileModes, handlerRegistered,
                 written, promise, history, findVars>>

\* 'open' with the listener, and fs.readFileSync throws inside it: the async
\* handler's own promise rejects, finalize is never called
StreamOpenReadThrows ==
  /\ streamState = "opening"
  /\ OpenIsIO
  /\ handlerRegistered
  /\ \E i \in 1..Len(filesPathList) : filesPathList[i].rootPath \in DOMAIN fileModes
  /\ streamState' = "open"
  /\ openEmitted' = TRUE
  /\ zipFile' = [state |-> "empty", archive |-> NoArchive]
  /\ handlerRuns' = handlerRuns + 1
  /\ nzPc' = "handlerThrew"
  /\ UNCHANGED <<inputVars, pipeVars, statDone, fileModes, handlerRegistered,
                 appended, written, promise, history, findVars>>

\* the open fails: 'error' is emitted on output, which has no 'error' listener
StreamOpenFail ==
  /\ streamState = "opening"
  /\ OpenIsIO
  /\ streamState' = "errored"
  /\ nzPc' = "crashed"
  /\ UNCHANGED <<inputVars, pipeVars, statDone, fileModes, handlerRegistered, openEmitted,
                 handlerRuns, appended, written, promise, zipFile, history, findVars>>

\* the archiver streams the appended entries into the file at zipPath
WriteEntry ==
  /\ nzPc = "finalizing"
  /\ written < Len(appended)
  /\ written' = written + 1
  /\ zipFile' = [state |-> "partial", archive |-> NodeArchive(SubSeq(appended, 1, written + 1))]
  /\ UNCHANGED <<inputVars, pipeVars, nzPc, statDone, fileModes, streamState,
                 handlerRegistered, openEmitted, handlerRuns, appended, promise,
                 history, findVars>>

\* line 157: zipArchive.on('error', (err) => reject(err))
ArchiverError ==
  /\ nzPc = "finalizing"
  /\ nzPc' = "errored"
  /\ promise' = "rejected"
  /\ UNCHANGED <<inputVars, pipeVars, statDone, fileModes, streamState, handlerRegistered,
                 openEmitted, handlerRuns, appended, written, zipFile, history, findVars>>

\* line 156: the archive ends, output closes: output.on('close', resolve)
OutputClose ==
  /\ nzPc = "finalizing"
  /\ written = Len(appended)
  /\ zipFile' = [state |-> "complete", archive |-> NodeArchive(appended)]
  /\ streamState' = "closed"
  /\ nzPc' = "closed"
  /\ promise' = "resolved"
  /\ UNCHANGED <<inputVars, pipeVars, statDone, fileModes, handlerRegistered, openEmitted,
                 handlerRuns, appended, written, history, findVars>>

\* line 91: Effect.tryPromise(() => nodeZip(...)) continues when the promise settles
NodeZipSettled ==
  /\ pc = "archiving"
  /\ ~useNativeZip
  /\ nzPc # "crashed"
  /\ promise \in {"resolved", "rejected"}
  /\ archiveStep' = "finished"
  /\ exitFailed' = (promise = "rejected")
  /\ pc' = "release"
  /\ UNCHANGED <<inputVars, copied, tempExists, staged, zipDirMade,
                 nodeZipVars, zipFile, history, findVars>>

\* --------------------------------------------------------- the next zip call
\* zip is called again on the same list, later, the sources touched or not, the
\* output of the call before set aside
NextRun ==
  /\ pc \in {"resolved", "rejected"}
  /\ run < MaxRuns
  /\ streamState # "opening"
  /\ nzPc # "crashed"
  /\ history' = Append(history, [native |-> useNativeZip, ok |-> pc = "resolved",
                                 archive |-> IF pc = "resolved" THEN zipFile.archive ELSE NoArchive])
  /\ run' = run + 1
  /\ now' = now + 1
  /\ srcMtime' \in {srcMtime, now}
  /\ useNativeZip' \in BOOLEAN
  /\ pc' = "start"
  /\ copied' = 0
  /\ tempExists' = FALSE
  /\ staged' = {}
  /\ zipDirMade' = FALSE
  /\ archiveStep' = "notStarted"
  /\ exitFailed' = FALSE
  /\ nzPc' = "none"
  /\ statDone' = {}
  /\ fileModes' = << >>
  /\ streamState' = "none"
  /\ handlerRegistered' = FALSE
  /\ openEmitted' = FALSE
  /\ handlerRuns' = 0
  /\ appended' = << >>
  /\ written' = 0
  /\ promise' = "none"
  /\ zipFile' = [state |-> "absent", archive |-> NoArchive]
  /\ UNCHANGED <<filesPathList, findVars>>

\* ------------------------------------------------- findProjectRoot (35-70)
\* Directories are absolute paths, sequences of segments; the filesystem root is
\* the empty sequence. The working directory and its ancestors form one chain.
DirAt(depth) == [i \in 1..depth |-> i]

None == [some |-> FALSE, value |-> << >>]
Some(v) == [some |-> TRUE, value |-> v]

\* const rootOf = (p) => path.parse(path.resolve(p)).root
RootOf(p) == << >>
\* const isPathRoot = (p) => rootOf(p) === path.resolve(p)
IsPathRoot(p) == RootOf(p) = p
\* path.dirname: the parent, and the root for the root
DirnameSkipping(p) == IF Len(p) <= 2 THEN << >> ELSE SubSeq(p, 1, Len(p) - 2)
Dirname(p) == IF p = << >> THEN << >> ELSE SubSeq(p, 1, Len(p) - 1)

\* safeFileExists(path.join(dir, name))
SafeFileExists(d, name) == name \in dirFiles[Len(d)]

\* the names findProjectRoot looks for
ProjectRootNamesNoPnpm == {"yarn.lock", "package-lock.json"}
ProjectRootNames == {"yarn.lock", "pnpm-lock.yaml", "package-lock.json"}

\* what a directory may hold
DirContents ==
  { {}, {"yarn.lock"}, {"pnpm-lock.yaml"}, {"package-lock.json"}, {"package.json"},
    {"package.json", "yarn.lock"} }

\* Effect.fromNullable(rootDir), orElse findUpEffect([...]) from process.cwd()
FindProjectRoot ==
  /\ findPc = "called"
  /\ IF rootDir.some
       THEN /\ found' = Some(rootDir.value)
            /\ findPc' = "done"
            /\ dir' = dir
       ELSE /\ dir' = DirAt(cwdDepth)
            /\ findPc' = "walking"
            /\ found' = found
  /\ UNCHANGED <<rootDir, cwdDepth, dirFiles, zipVars>>

\* one level of findUpEffect(names, directory)
FindUpEffect ==
  /\ findPc = "walking"
  /\ IF \E name \in ProjectRootNames : SafeFileExists(dir, name)
       THEN /\ found' = Some(dir)
            /\ findPc' = "done"
            /\ dir' = dir
       ELSE IF IsPathRoot(dir)
         THEN /\ found' = None        \* orElseSucceed(() => undefined)
              /\ findPc' = "done"
              /\ dir' = dir
         ELSE /\ dir' = Dirname(dir)
              /\ UNCHANGED <<found, findPc>>
  /\ UNCHANGED <<rootDir, cwdDepth, dirFiles, zipVars>>

FindInitFixed ==
  /\ rootDir = None
  /\ cwdDepth = 0
  /\ dirFiles = [d \in 0..MaxDepth |-> {}]
  /\ findPc = "idle"
  /\ dir = << >>
  /\ found = None

ZipInit(list, native) ==
  /\ filesPathList = list
  /\ useNativeZip = native
  /\ run = 1
  /\ now = 1
  /\ srcMtime = 0
  /\ pc = "start"
  /\ copied = 0
  /\ tempExists = FALSE
  /\ staged = {}
  /\ zipDirMade = FALSE
  /\ archiveStep = "notStarted"
  /\ exitFailed = FALSE
  /\ nzPc = "none"
  /\ statDone = {}
  /\ fileModes = << >>
  /\ streamState = "none"
  /\ handlerRegistered = FALSE
  /\ openEmitted = FALSE
  /\ handlerRuns = 0
  /\ appended = << >>
  /\ written = 0
  /\ promise = "none"
  /\ zipFile = [state |-> "absent", archive |-> NoArchive]
  /\ history = << >>

Init ==
  /\ \E list \in IFilesLists, native \in BOOLEAN : ZipInit(list, native)
  /\ FindInitFixed

Next ==
  \/ MakeTempPathScoped \/ MakeTempFail
  \/ CopyFile \/ CopyFail
  \/ MakePath \/ MakePathFail
  \/ BestZipStart \/ BestZipDone \/ BestZipFail
  \/ NodeZipStart \/ StatDone \/ StatFail \/ RegisterHandlers
  \/ StreamOpenUnheard \/ StreamOpenHandled \/ StreamOpenReadThrows \/ StreamOpenFail
  \/ WriteEntry \/ ArchiverError \/ OutputClose
  \/ NodeZipSettled \/ ScopeClose
  \/ NextRun

Spec == Init /\ [][Next]_vars

InitFind ==
  /\ ZipInit(<< >>, FALSE)
  /\ rootDir \in {None, Some(<< >>), Some(<<7>>)}
  /\ cwdDepth \in 0..MaxDepth
  /\ dirFiles \in [0..MaxDepth -> DirContents]
  /\ findPc = "called"
  /\ dir = << >>
  /\ found = None

NextFind == FindProjectRoot \/ FindUpEffect

\* Effect.runSync runs the lookup to its end
SpecFind == InitFind /\ [][NextFind]_vars /\ WF_vars(NextFind)

\* ------------------------------------------------------------- properties
Settled == pc \in {"resolved", "rejected"}

\* the paths of the entries of an archive
EntryNames(archive) ==
  IF archive.kind = "node" THEN { e.name : e \in Range(archive.entries) }
  ELSE IF archive.kind = "native" THEN { e.name : e \in archive.entries }
  ELSE {}

IsPrefix(p, q) == Len(p) <= Len(q) /\ SubSeq(q, 1, Len(p)) = p

\* the earlier calls that succeeded with the given strategy
EarlierOk(native) == { k \in DOMAIN history : history[k].ok /\ history[k].native = native }

TempDirCleanup == Settled => ~tempExists

\* a call that created the directory, copied into it, failed in the archive step
TempDirCleanupWitness ==
  /\ pc = "rejected" /\ ~tempExists
  /\ copied > 0 /\ archiveStep = "finished"

\* C3 (as claimed): when zip resolves, for either strategy, the archive at zipPath
\* holds every listed regular file at its localPath, and every entry is a listed
\* file's localPath (or lies under a listed directory's localPath).
ArchiveCompleteness ==
  pc = "resolved" =>
    /\ zipFile.state = "complete"
    /\ \A i \in DOMAIN filesPathList :
         ~SourceFS[filesPathList[i].rootPath].isDirectory =>
            filesPathList[i].localPath \in EntryNames(zipFile.archive)
    /\ \A n \in EntryNames(zipFile.archive) :
         \E i \in DOMAIN filesPathList :
            IF SourceFS[filesPathList[i].rootPath].isDirectory
              THEN IsPrefix(filesPathList[i].localPath, n)
              ELSE filesPathList[i].localPath = n

\* C4 (as claimed): when zip rejects, no file, empty or partial, is at zipPath.
NoPartialArchiveOnFailure == pc = "rejected" => zipFile.state = "absent"

\* C5 (as claimed): a successful native call and a successful internal call on the
\* same list produce archives with the same set of entry paths.
StrategyEquivalence ==
  pc = "resolved" =>
    \A k \in EarlierOk(~useNativeZip) :
       EntryNames(history[k].archive) = EntryNames(zipFile.archive)

\* C6: every entry nodeZip appends or writes carries the mode stat reports for the
\* rootPath of the listed file with that localPath, and no other file's mode.
NodeEntries ==
  Range(appended) \cup (IF zipFile.archive.kind = "node" THEN Range(zipFile.archive.entries) ELSE {})

ModePreservation ==
  \A e \in NodeEntries :
    /\ \E i \in DOMAIN filesPathList : filesPathList[i].localPath = e.name
    /\ \A i \in DOMAIN filesPathList :
         filesPathList[i].localPath = e.name => e.mode = SourceFS[filesPathList[i].rootPath].mode

\* an archive written by nodeZip holding an executable and a non-executable file
ModePreservationWitness ==
  /\ zipFile.state = "complete" /\ zipFile.archive.kind = "node"
  /\ \E e \in Range(zipFile.archive.entries) : e.mode = ModeExec
  /\ \E e \in Range(zipFile.archive.entries) : e.mode = ModeFile

\* C7: within one call the temporary directory exists before anything is copied or
\* the parent directory is made; the archive step starts only once every listed
\* file is copied and the parent directory is made; the temporary directory is
\* there as long as the archive step runs.
StagingOrder ==
  /\ ((copied > 0 \/ zipDirMade) /\ ~Settled) => tempExists
  /\ archiveStep # "notStarted" => (copied = Len(filesPathList) /\ zipDirMade)
  /\ archiveStep = "running" => tempExists

\* the archive step ran over two staged files and the directory was then removed
StagingOrderWitness ==
  /\ archiveStep = "finished" /\ Settled /\ ~tempExists
  /\ copied = MaxFiles

\* C9 (as claimed): the promise of nodeZip never stays pending forever: while it
\* is pending, some step of the call can still happen.
NodeZipSettles == promise = "pending" => ENABLED Next

\* C10 (as claimed): 'open' is never emitted before its handler is registered, and
\* once it is emitted the handler has run exactly once, after every stat.
OpenHandlerRunsOnce ==
  /\ openEmitted => handlerRuns = 1
  /\ handlerRuns <= 1
  /\ handlerRuns = 1 => statDone = 1..Len(filesPathList)

\* C8: findProjectRoot returns rootDir when it is given; otherwise the nearest of
\* the working directory and its ancestors that holds yarn.lock, pnpm-lock.yaml or
\* package-lock.json, and undefined when none does; the walk visits only the
\* working directory and its ancestors, and stops at the root at the latest.
LockHolders ==
  { k \in 0..cwdDepth :
      dirFiles[k] \cap {"yarn.lock", "pnpm-lock.yaml", "package-lock.json"} # {} }

Nearest(S) == CHOOSE k \in S : \A j \in S : j <= k

ProjectRootResult ==
  /\ findPc = "walking" => (Len(dir) <= cwdDepth /\ dir = DirAt(Len(dir)))
  /\ findPc = "walking" =>
       \A k \in LockHolders : k <= Len(dir)
  /\ findPc = "done" =>
       IF rootDir.some THEN found = Some(rootDir.value)
       ELSE IF LockHolders = {} THEN found = None /\ dir = << >>
       ELSE found = Some(DirAt(Nearest(LockHolders)))

ProjectRootLookup == []ProjectRootResult /\ <>(findPc = "done")

\* no rootDir; the lockfile is found two levels above the working directory, and
\* another one lies further up
ProjectRootLookupWitness ==
  /\ findPc = "done" /\ ~rootDir.some
  /\ found.some /\ Len(found.value) = cwdDepth - 2
  /\ dirFiles[cwdDepth] = {"package.json"}
  /\ Cardinality(LockHolders) >= 1

====
